---------------------------- MODULE Spec2Model ----------------------------
(***************************************************************************)
(* gear-microkit: the typed metadata accessors of RequestExt               *)
(* (request_ext.rs) and the client tracing middleware                      *)
(* (middlewares/client_tracing.rs, with the bootstrap of server.rs).       *)
(*                                                                         *)
(* Strings are sequences of one-character strings.  Integers of 32 and 64  *)
(* bits do not fit the model checker's integers, so a parsed integer is a  *)
(* record [neg, mag]: its sign and its magnitude as a sequence of decimal  *)
(* digits without leading zeros (zero is <<0>>).  Option<T> is a sequence: *)
(* None is <<>>, Some(v) is <<v>>.                                         *)
(***************************************************************************)
EXTENDS Integers, Sequences, FiniteSets, TLC

VARIABLES
    metadata,   \* the request's metadata: header name -> Option<string>
    ret,        \* the last accessor call: [method, value]
    propagator, \* the process-wide text map propagator
    tracer,     \* the tracer the server bootstrap built: Option
    calls,      \* call id -> the state of that call through ClientTracingEndpoint
    spans,      \* call id -> the spans that call has started, in order
    current,    \* worker -> the worker thread's current Context
    server,     \* the GrpcServer: its services, its bootstrap, its app
    incoming    \* request id -> the state of that incoming call

metaVars == <<metadata, ret>>
traceVars == <<propagator, tracer, calls, spans, current>>
serverVars == <<server, incoming>>
vars == <<metadata, ret, propagator, tracer, calls, spans, current,
          server, incoming>>

None == <<>>
Some(v) == <<v>>

-----------------------------------------------------------------------------
(* Bounds of the inputs *)

\* numeric header values: every string over NumAlphabet up to this length
MaxNumLen == 2
\* x-features values: every string over FeatAlphabet up to this length
MaxFeatLen == 3
\* market-levels values: up to this many groups ...
MaxGroups == 2
\* ... of up to this many levels each
MaxLevels == 2
\* market-levels values: also every string over MarketAlphabet up to this length
MaxRawLen == 2
\* the calls made through the client middleware
MaxCalls == 2
\* how often the inner endpoint of one call may return Pending
MaxPending == 1
\* the incoming calls of the server
MaxIncoming == 2

-----------------------------------------------------------------------------
(* Strings *)

DigitChars == <<"0", "1", "2", "3", "4", "5", "6", "7", "8", "9">>

\* the string of a sequence of digits
Str(ds) == [i \in 1..Len(ds) |-> DigitChars[ds[i] + 1]]

\* all strings over alphabet A of length at most n
StringsUpTo(A, n) == UNION {[1..k -> A] : k \in 0..n}

RECURSIVE Join(_, _)
\* the strings of list l with separator d between them
Join(l, d) ==
    IF l = <<>> THEN <<>>
    ELSE IF Len(l) = 1 THEN l[1]
    ELSE l[1] \o <<d>> \o Join(Tail(l), d)

\* the index of the first d in s, 0 when there is none (str::find)
Find(s, d) ==
    IF \E i \in 1..Len(s) : s[i] = d
    THEN CHOOSE i \in 1..Len(s) : s[i] = d /\ \A j \in 1..(i - 1) : s[j] # d
    ELSE 0

\* str::split_once: the text before and after the first d, None without a d
split_once(s, d) ==
    LET i == Find(s, d)
    IN  IF i = 0 THEN None
        ELSE Some(<<SubSeq(s, 1, i - 1), SubSeq(s, i + 1, Len(s))>>)

RECURSIVE split(_, _)
\* str::split(d).collect(): the pieces between the d's, in order; a string
\* without d (the empty string too) is one piece
split(s, d) ==
    LET i == Find(s, d)
    IN  IF i = 0 THEN <<s>>
        ELSE <<SubSeq(s, 1, i - 1)>> \o split(SubSeq(s, i + 1, Len(s)), d)

-----------------------------------------------------------------------------
(* str::parse for the integer targets of the accessors *)

U64Max == <<1,8,4,4,6,7,4,4,0,7,3,7,0,9,5,5,1,6,1,5>>
I64Max == <<9,2,2,3,3,7,2,0,3,6,8,5,4,7,7,5,8,0,7>>
I64MinMag == <<9,2,2,3,3,7,2,0,3,6,8,5,4,7,7,5,8,0,8>>
I32Max == <<2,1,4,7,4,8,3,6,4,7>>
I32MinMag == <<2,1,4,7,4,8,3,6,4,8>>

\* the integer types: signedness, largest value, magnitude of the smallest
U64 == [signed |-> FALSE, max |-> U64Max, minMag |-> <<0>>]
I64 == [signed |-> TRUE, max |-> I64Max, minMag |-> I64MinMag]
I32 == [signed |-> TRUE, max |-> I32Max, minMag |-> I32MinMag]

\* char::to_digit(10): the digit of c, -1 when c is no decimal digit
to_digit(c) ==
    IF \E d \in 1..10 : DigitChars[d] = c
    THEN (CHOOSE d \in 1..10 : DigitChars[d] = c) - 1
    ELSE -1

\* a <= b for magnitudes without leading zeros
MagLeq(a, b) ==
    \/ Len(a) < Len(b)
    \/ /\ Len(a) = Len(b)
       /\ \/ a = b
          \/ \E i \in 1..Len(a) :
                /\ a[i] < b[i]
                /\ \A j \in 1..(i - 1) : a[j] = b[j]

\* result * 10 + d on magnitudes (for a negative number: result * 10 - d)
MulAdd(mag, d) == IF mag = <<0>> THEN <<d>> ELSE Append(mag, d)

RECURSIVE Accumulate(_, _, _)
\* the digit loop of from_str_radix: checked_mul(10) then checked_add(digit)
\* (checked_sub for a negative number); None at the first error, which is
\* InvalidDigit for a character that is no digit and PosOverflow or
\* NegOverflow past the limit
Accumulate(digits, mag, limit) ==
    IF digits = <<>> THEN Some(mag)
    ELSE LET x == to_digit(Head(digits))
             next == MulAdd(mag, x)
         IN  IF x = -1 THEN None
             ELSE IF ~MagLeq(next, limit) THEN None
             ELSE Accumulate(Tail(digits), next, limit)

RECURSIVE DigitPrefix(_)
\* the leading digits of s
DigitPrefix(s) ==
    IF s = <<>> \/ to_digit(Head(s)) = -1 THEN <<>>
    ELSE <<Head(s)>> \o DigitPrefix(Tail(s))

\* parse as it would be if it read the leading digits and ignored the rest
parse_lenient(src, T) ==
    LET digits == DigitPrefix(src)
        r == Accumulate(digits, <<0>>, T.max)
    IN  IF digits = <<>> \/ r = None THEN None
        ELSE Some([neg |-> FALSE, mag |-> r[1]])

\* str::parse::<T>().ok() for an integer type T
parse(src, T) ==
    IF src = <<>> THEN None
    ELSE IF Len(src) = 1 /\ src[1] \in {"+", "-"} THEN None
    ELSE LET neg == T.signed /\ src[1] = "-"
             digits == IF src[1] = "+" \/ neg THEN Tail(src) ELSE src
             r == Accumulate(digits, <<0>>, IF neg THEN T.minMag ELSE T.max)
         IN  IF r = None THEN None
             ELSE Some([neg |-> neg /\ r[1] # <<0>>, mag |-> r[1]])

-----------------------------------------------------------------------------
(* The accessors of RequestExt for Request<T> *)

\* the headers the accessors of the model read
NumHeaders ==
    {"member-id", "admin-id", "org-id", "x-target-org-id", "target-aaid",
     "base-level", "op-member-id", "broker-type"}
HeaderNames == NumHeaders \cup {"market-levels", "x-features"}

\* self.metadata().get(name)
get(md, name) == md[name]

\* Option::and_then(|value| value.parse().ok())
and_then_parse(o, T) == IF o = None THEN None ELSE parse(o[1], T)

\* impl_u64_values!: the accessor of one unsigned 64-bit header
u64_value(md, name) == and_then_parse(get(md, name), U64)

\* impl_i32_values!: the accessor of one signed 32-bit header
i32_value(md, name) == and_then_parse(get(md, name), I32)

member_id(md) == u64_value(md, "member-id")
admin_id(md) == u64_value(md, "admin-id")
organization_id(md) == u64_value(md, "org-id")
target_organization_id(md) == u64_value(md, "x-target-org-id")
target_aaid(md) == u64_value(md, "target-aaid")
base_level(md) == i32_value(md, "base-level")

\* HashMap::insert
insert(m, key, value) ==
    [k \in DOMAIN m \cup {key} |-> IF k = key THEN value ELSE m[k]]

\* the delimiter market_levels looks for between a group's name and its levels
KeyDelimiter == ";"

RECURSIVE market_levels_loop(_, _)
\* the for loop of market_levels over the pieces of the header
market_levels_loop(kvs, levels) ==
    IF kvs = <<>> THEN levels
    ELSE LET so == split_once(Head(kvs), KeyDelimiter)
         IN  market_levels_loop(
                 Tail(kvs),
                 IF so = None THEN levels
                 ELSE insert(levels, so[1][1], split(so[1][2], ",")))

market_levels(md) ==
    LET parts == get(md, "market-levels")
    IN  IF parts = None THEN <<>>
        ELSE market_levels_loop(split(parts[1], ";"), <<>>)

\* features as it would be if empty tokens were dropped
features_skip_empty(md) ==
    LET value == get(md, "x-features")
        toks == IF value = None THEN <<>> ELSE split(value[1], ",")
    IN  SelectSeq(toks, LAMBDA t : t # <<>>)

RECURSIVE Dedup(_)
Dedup(l) ==
    IF l = <<>> THEN <<>>
    ELSE LET front == Dedup(SubSeq(l, 1, Len(l) - 1))
             last == l[Len(l)]
         IN  IF \E i \in 1..Len(front) : front[i] = last THEN front
             ELSE Append(front, last)

\* features as it would be if repeated tokens were dropped
features_dedup(md) ==
    LET value == get(md, "x-features")
    IN  IF value = None THEN <<>> ELSE Dedup(split(value[1], ","))

features(md) ==
    LET value == get(md, "x-features")
    IN  IF value = None THEN <<>> ELSE split(value[1], ",")

\* op_member_id as it would be without the fallback
op_member_id_no_fallback(md) == and_then_parse(get(md, "op-member-id"), U64)

op_member_id(md) ==
    LET op == and_then_parse(get(md, "op-member-id"), U64)
    IN  IF op # None THEN op ELSE member_id(md)

\* BrokerType::from as it would be with Trader as the default variant
BrokerTypeFrom_default_trader(n) ==
    IF n = [neg |-> FALSE, mag |-> <<0>>] THEN "Unknown"
    ELSE IF n = [neg |-> FALSE, mag |-> <<2>>] THEN "Broker"
    ELSE "Trader"

\* BrokerType::from(i64): the derived FromPrimitive, discriminants 0, 1, 2
\* in declaration order, Unknown the num_enum(default)
BrokerTypeFrom(n) ==
    IF n = [neg |-> FALSE, mag |-> <<1>>] THEN "Trader"
    ELSE IF n = [neg |-> FALSE, mag |-> <<2>>] THEN "Broker"
    ELSE "Unknown"

broker_type(md) ==
    LET n == and_then_parse(get(md, "broker-type"), I64)
    IN  IF n = None THEN None ELSE Some(BrokerTypeFrom(n[1]))

-----------------------------------------------------------------------------
(* The requests the accessors are called on *)

NumAlphabet == {"0", "7", "+", "-", "a"}
FeatAlphabet == {"a", "b", ",", " "}
MarketAlphabet == {"m", "1", ":", ";", ","}
GroupNames == {<<"m">>, <<"u", "s">>}
LevelNames == {<<"1">>, <<"l", "2">>}

\* numerals at the edges of the three integer types, and a few more
EdgeStrings ==
    {Str(U64Max), <<"+">> \o Str(U64Max), <<"0">> \o Str(U64Max),
     Str(MulAdd(SubSeq(U64Max, 1, 19), 6)), <<"-">> \o Str(U64Max),
     Str(I64Max), Str(I64MinMag), <<"-">> \o Str(I64MinMag),
     <<"-">> \o Str(MulAdd(SubSeq(I64MinMag, 1, 18), 9)),
     Str(I32Max), Str(I32MinMag), <<"-">> \o Str(I32MinMag),
     <<"-">> \o Str(MulAdd(SubSeq(I32MinMag, 1, 9), 9)),
     <<"1">>, <<"2">>, <<"9">>, <<"9", "9">>, <<"-", "1">>, <<"+", "2">>,
     <<"a", "b", "c">>, <<"7", " ">>, <<" ", "7">>, <<"1", ".", "0">>}

NumericValues == StringsUpTo(NumAlphabet, MaxNumLen) \cup EdgeStrings

FeatureValues ==
    StringsUpTo(FeatAlphabet, MaxFeatLen)
        \cup {<<"d", "a", "r", "k", "_", "m", "o", "d", "e", ",",
                "b", "e", "t", "a", "_", "u", "i">>}

\* a group in the documented format: name:level1,level2
GroupText(name, levels) == name \o <<":">> \o Join(levels, ",")

\* the headers in the documented format market1:level1,level2;market2:level3,
\* each market named once
DocumentedMarketValues ==
    LET LevelLists == UNION {[1..k -> LevelNames] : k \in 1..MaxLevels}
        NameLists ==
            {nl \in UNION {[1..k -> GroupNames] : k \in 1..MaxGroups} :
                \A i, j \in 1..Len(nl) : nl[i] = nl[j] => i = j}
    IN  UNION {{Join([i \in 1..Len(nl) |-> GroupText(nl[i], ll[i])], ";") :
                    ll \in [1..Len(nl) -> LevelLists]} : nl \in NameLists}

MarketValues == DocumentedMarketValues \cup StringsUpTo(MarketAlphabet, MaxRawLen)

NoHeaders == [h \in HeaderNames |-> None]
With(md, h, v) == [md EXCEPT ![h] = Some(v)]

\* no header; one header; op-member-id together with member-id
Requests ==
    {NoHeaders}
        \cup {With(NoHeaders, h, v) : h \in NumHeaders, v \in NumericValues}
        \cup {With(With(NoHeaders, "op-member-id", v), "member-id", w) :
                v \in NumericValues, w \in NumericValues}
        \cup {With(NoHeaders, "market-levels", v) : v \in MarketValues}
        \cup {With(NoHeaders, "x-features", v) : v \in FeatureValues}

-----------------------------------------------------------------------------
(* The client tracing middleware: ClientTracingEndpoint::call *)

Calls == 1..MaxCalls
Workers == {"w1", "w2"}
NoWorker == "none"

\* a Context is the span it holds as current; the root Context holds none
NoSpan == <<>>
Context(span) == [span |-> span]
RootContext == Context(NoSpan)

\* the header names of the model: the two fields of the W3C trace context
\* propagator and one header of the application
PropagatorFields == {"traceparent", "tracestate"}
TraceHeaderNames == PropagatorFields \cup {"x-micro-service"}

\* header values: the traceparent of a span, an empty tracestate, and the
\* values a request may carry before the middleware sees it
TraceParent(span) == <<"00", span>>
EmptyTraceState == <<"">>
OldTraceParent == <<"00", <<0, 0>>>>
OldTraceState == <<"vendor=1">>
ServiceName == <<"svc">>

EmptyHeaders == [h \in TraceHeaderNames |-> None]
\* the requests of the model: one that carries no trace context yet and one
\* that carries the trace context of an earlier hop
OutgoingRequests ==
    {[headers |-> [EmptyHeaders EXCEPT !["x-micro-service"] = Some(ServiceName)],
      uri |-> [authority |-> "quote:8080", path |-> "/quote.Quote/Get"]],
     [headers |-> [EmptyHeaders EXCEPT !["x-micro-service"] = Some(ServiceName),
                                       !["traceparent"] = Some(OldTraceParent),
                                       !["tracestate"] = Some(OldTraceState)],
      uri |-> [authority |-> "trade:8080", path |-> "/trade.Trade/Put"]]}

\* HeaderInjector::set as it would be if it kept a header already present
injector_set_if_absent(headers, key, value) ==
    IF headers[key] = None THEN [headers EXCEPT ![key] = Some(value)]
    ELSE headers

\* HeaderInjector::set: HeaderMap::insert, which replaces the value of a
\* header already present
injector_set(headers, key, value) == [headers EXCEPT ![key] = Some(value)]

\* propagator.inject_context(&cx, &mut HeaderInjector(headers)) for the
\* process-wide propagator: the no-op default writes nothing, the
\* TraceContextPropagator writes its two fields for a valid span
inject_context(prop, cx, headers) ==
    IF prop = "TraceContextPropagator" /\ cx.span # NoSpan
    THEN injector_set(
             injector_set(headers, "traceparent", TraceParent(cx.span)),
             "tracestate", EmptyTraceState)
    ELSE headers

\* the tracer the process has rather than the one in the call's data
data_tracer_global(req) == tracer

\* req.data::<Tracer>(): the tracer in the call's data, if any
data_tracer(req) == req.data

\* the steps of the Some(tracer) arm with the injection after the inner call
after_inject_late(step) ==
    CASE step = "start_span" -> "set_attribute"
      [] step = "set_attribute" -> "current_with_span"
      [] step = "current_with_span" -> "call_inner"
      [] step = "call_inner" -> "inject_context"
      [] step = "inject_context" -> "await"

\* the order of the statements of the Some(tracer) arm
after(step) ==
    CASE step = "start_span" -> "set_attribute"
      [] step = "set_attribute" -> "current_with_span"
      [] step = "current_with_span" -> "inject_context"
      [] step = "inject_context" -> "call_inner"
      [] step = "call_inner" -> "await"

\* dropping a Context as it would be if the span it holds were kept open
drop_context_leak(sp, cx) == sp

\* dropping the Context cx of a call whose spans are sp: the last reference
\* to the span goes, and the span ends as it is dropped
drop_context(sp, cx) ==
    IF cx = None THEN sp
    ELSE [i \in 1..Len(sp) |->
            IF sp[i].id = cx[1].span THEN [sp[i] EXCEPT !.ends = @ + 1]
            ELSE sp[i]]

\* the guard kept across the suspension: the worker's Context stays
detach_keep_attached(cur, w, guard) == cur

\* the poll of WithContext returns and its guard is dropped: the worker's
\* current Context is again the one from before the attach
detach(cur, w, guard) ==
    IF guard # None THEN [cur EXCEPT ![w] = guard[1]] ELSE cur

IdleCall ==
    [pc |-> "idle", worker |-> NoWorker,
     req |-> [headers |-> EmptyHeaders, data |-> None, uri |-> None],
     entry |-> EmptyHeaders,
     span |-> None, cx |-> None, guard |-> None,
     innerReq |-> None, innerCalls |-> 0, innerSaw |-> {},
     pendings |-> 0, innerOut |-> None, result |-> None]

TraceInit ==
    /\ propagator = "NoopTextMapPropagator"
    /\ tracer = None
    /\ calls = [c \in Calls |-> IdleCall]
    /\ spans = [c \in Calls |-> <<>>]
    /\ current = [w \in Workers |-> RootContext]

\* GrpcServer::start_with_middleware: the propagator is set and the tracer
\* is built, which AddData then puts into the data of every request
StartWithMiddleware ==
    /\ tracer = None
    /\ propagator' = "TraceContextPropagator"
    /\ tracer' = Some("gear-rs")
    /\ UNCHANGED <<calls, spans, current>>
    /\ UNCHANGED metaVars
    /\ UNCHANGED serverVars

\* a request is handed to the endpoint: the future of call is created and
\* has not run.  The data holds the tracer or not.
NewCall(c) ==
    /\ calls[c].pc = "idle"
    /\ \E r \in OutgoingRequests, data \in {None, tracer} :
          calls' = [calls EXCEPT ![c] =
                      [@ EXCEPT !.pc = "created",
                                !.req = [headers |-> r.headers, data |-> data,
                                         uri |-> r.uri],
                                !.entry = r.headers]]
    /\ UNCHANGED <<propagator, tracer, spans, current>>
    /\ UNCHANGED metaVars
    /\ UNCHANGED serverVars

\* a suspended call keeps the name of the worker that polled it last, but
\* does not occupy it
WorkerFree(w) ==
    \A c \in Calls : calls[c].worker = w => calls[c].pc = "suspended"

\* a worker polls the future of call for the first time: the body runs up
\* to the match on req.data::<Tracer>()
PollFirst(c, w) ==
    /\ calls[c].pc = "created"
    /\ WorkerFree(w)
    /\ calls' = [calls EXCEPT ![c] =
                  [@ EXCEPT !.worker = w,
                            !.pc = IF data_tracer(calls[c].req) # None
                                   THEN "start_span" ELSE "call_inner"]]
    /\ UNCHANGED <<propagator, tracer, spans, current>>
    /\ UNCHANGED metaVars
    /\ UNCHANGED serverVars

\* tracer.span_builder("grpc request").with_kind(SpanKind::Client).start(tracer)
StartSpan(c) ==
    /\ calls[c].pc = "start_span"
    /\ LET id == <<c, Len(spans[c]) + 1>>
       IN  /\ spans' = [spans EXCEPT ![c] =
                          Append(@, [id |-> id, name |-> "grpc request",
                                     kind |-> "Client",
                                     parent |-> current[calls[c].worker].span,
                                     url_full |-> None, ends |-> 0])]
           /\ calls' = [calls EXCEPT ![c] =
                          [@ EXCEPT !.span = Some(id), !.pc = after(@)]]
    /\ UNCHANGED <<propagator, tracer, current>>
    /\ UNCHANGED metaVars
    /\ UNCHANGED serverVars

\* span.set_attribute(KeyValue::new(trace::URL_FULL, req.uri().path()))
SetAttribute(c) ==
    /\ calls[c].pc = "set_attribute"
    /\ spans' = [spans EXCEPT ![c] =
                  [i \in 1..Len(@) |->
                     IF @[i].id = calls[c].span[1]
                     THEN [@[i] EXCEPT !.url_full = Some(calls[c].req.uri.path)]
                     ELSE @[i]]]
    /\ calls' = [calls EXCEPT ![c] = [@ EXCEPT !.pc = after(@)]]
    /\ UNCHANGED <<propagator, tracer, current>>
    /\ UNCHANGED metaVars
    /\ UNCHANGED serverVars

\* let cx = Context::current_with_span(span): the span moves into cx
CurrentWithSpan(c) ==
    /\ calls[c].pc = "current_with_span"
    /\ calls' = [calls EXCEPT ![c] =
                  [@ EXCEPT !.cx = Some(Context(calls[c].span[1])), !.span = None,
                            !.pc = after(@)]]
    /\ UNCHANGED <<propagator, tracer, spans, current>>
    /\ UNCHANGED metaVars
    /\ UNCHANGED serverVars

\* global::get_text_map_propagator(|p| p.inject_context(&cx, headers))
InjectContext(c) ==
    /\ calls[c].pc = "inject_context"
    /\ calls' = [calls EXCEPT ![c] =
                  [@ EXCEPT !.req.headers =
                                inject_context(propagator, calls[c].cx[1], @),
                            !.pc = after(@)]]
    /\ UNCHANGED <<propagator, tracer, spans, current>>
    /\ UNCHANGED metaVars
    /\ UNCHANGED serverVars

\* self.inner.call(req): the request moves to the inner endpoint
CallInner(c) ==
    /\ calls[c].pc = "call_inner"
    /\ calls' = [calls EXCEPT ![c] =
                  [@ EXCEPT !.innerReq = Some(calls[c].req.headers),
                            !.innerCalls = @ + 1,
                            !.pc = IF calls[c].cx # None
                                   THEN after(@) ELSE "await"]]
    /\ UNCHANGED <<propagator, tracer, spans, current>>
    /\ UNCHANGED metaVars
    /\ UNCHANGED serverVars

\* a worker polls the suspended future of call again
PollAgain(c, w) ==
    /\ calls[c].pc = "suspended"
    /\ WorkerFree(w)
    /\ calls' = [calls EXCEPT ![c] = [@ EXCEPT !.worker = w, !.pc = "await"]]
    /\ UNCHANGED <<propagator, tracer, spans, current>>
    /\ UNCHANGED metaVars
    /\ UNCHANGED serverVars

\* .await: WithContext::poll attaches cx as the worker's current Context,
\* keeping the one before in its guard; without a tracer the inner future
\* is polled as it is
Attach(c) ==
    /\ calls[c].pc = "await"
    /\ LET w == calls[c].worker
       IN  IF calls[c].cx # None
           THEN /\ current' = [current EXCEPT ![w] = calls[c].cx[1]]
                /\ calls' = [calls EXCEPT ![c] =
                               [@ EXCEPT !.guard = Some(current[w]),
                                         !.pc = "inner"]]
           ELSE /\ calls' = [calls EXCEPT ![c] = [@ EXCEPT !.pc = "inner"]]
                /\ UNCHANGED current
    /\ UNCHANGED <<propagator, tracer, spans>>
    /\ UNCHANGED metaVars
    /\ UNCHANGED serverVars

\* the inner endpoint runs under the worker's current Context and returns
\* Pending or is ready with its result, and the poll returns: the guard
\* restores the worker's Context; on Pending the call is suspended, on Ready
\* the future and its Context are dropped and call returns the inner result
InnerPoll(c) ==
    /\ calls[c].pc = "inner"
    /\ \E out \in {"pending", "ok", "err"} :
          LET w == calls[c].worker
              ready == out # "pending"
          IN  /\ ~ready => calls[c].pendings < MaxPending
              /\ current' = detach(current, w, calls[c].guard)
              /\ spans' = IF ready
                          THEN [spans EXCEPT ![c] = drop_context(@, calls[c].cx)]
                          ELSE spans
              /\ calls' = [calls EXCEPT ![c] =
                             [@ EXCEPT !.innerSaw = @ \cup {current[w]},
                                       !.pendings = IF ready THEN @ ELSE @ + 1,
                                       !.guard = None,
                                       !.worker = IF ready THEN NoWorker ELSE @,
                                       !.cx = IF ready THEN None ELSE @,
                                       !.innerOut = IF ready THEN Some(out) ELSE @,
                                       !.result = IF ready THEN Some(out) ELSE @,
                                       !.pc = IF ready THEN "done" ELSE "suspended"]]
    /\ UNCHANGED <<propagator, tracer>>
    /\ UNCHANGED metaVars
    /\ UNCHANGED serverVars

\* cancellation: the future of call is dropped while it is not being
\* polled, and with it the inner future and the Context
Cancel(c) ==
    /\ calls[c].pc \in {"created", "suspended"}
    /\ spans' = [spans EXCEPT ![c] = drop_context(@, calls[c].cx)]
    /\ calls' = [calls EXCEPT ![c] = [@ EXCEPT !.cx = None,
                                               !.worker = NoWorker,
                                               !.pc = "cancelled"]]
    /\ UNCHANGED <<propagator, tracer, current>>
    /\ UNCHANGED metaVars
    /\ UNCHANGED serverVars

-----------------------------------------------------------------------------
(* The server bootstrap: GrpcServer *)

Incoming == 1..MaxIncoming
Services == {"quote.Quote", "trade.Trade"}

\* a middleware is the list of its stages, the outermost first; () is the
\* empty list
Unit == <<>>
\* the middlewares a user passes to start_with_middleware: SetHeader always
\* forwards, an authentication stage may answer without forwarding
UserMiddlewares == {<<"SetHeader">>, <<"Auth">>}
Answering == {"Auth"}

\* Middleware::combine: other is applied to what self returns, so the
\* stages of other run before those of self
combine(self, other) == other \o self

\* Middleware::combine_if
combine_if(self, enable, other) == IF enable THEN combine(self, other) ELSE self

\* the built-in stack as it would be without AddData
BuiltinStack_no_add_data(tokio_metrics) ==
    combine(
        combine_if(
            combine(combine(<<"OpenTelemetryTracing">>, <<"OpenTelemetryMetrics">>),
                    <<"SetCurrentService">>),
            tokio_metrics, <<"TokioMetrics">>),
        <<"RequestDurationMiddleware">>)

\* the built-in stack of start_with_middleware
BuiltinStack(tokio_metrics) ==
    combine(
        combine_if(
            combine(
                combine(combine(<<"AddData">>, <<"OpenTelemetryTracing">>),
                        <<"OpenTelemetryMetrics">>),
                <<"SetCurrentService">>),
            tokio_metrics, <<"TokioMetrics">>),
        <<"RequestDurationMiddleware">>)

\* self.router.with(built-in).boxed().with(middleware): the user's middleware
\* is the outermost
App(tokio_metrics, middleware) == middleware \o BuiltinStack(tokio_metrics)

\* what a stage puts into the data of the request: AddData the tracer it
\* was built with, SetCurrentService the name of the service
StageData(stage, service) ==
    IF stage = "AddData" THEN {<<"Tracer", tracer[1]>>}
    ELSE IF stage = "SetCurrentService" THEN {<<"CurrentService", service>>}
    ELSE {}

NoIncoming ==
    [pc |-> "none", service |-> "", pos |-> 0, data |-> {}, log |-> <<>>,
     propagator |-> ""]

ServerInit ==
    /\ server = [pc |-> "new", services |-> {}, middleware |-> Unit,
                 app |-> <<>>]
    /\ incoming = [r \in Incoming |-> NoIncoming]

\* GrpcServer::add_service
AddService(s) ==
    /\ server.pc = "new"
    /\ s \notin server.services
    /\ server' = [server EXCEPT !.services = @ \cup {s}]
    /\ UNCHANGED <<incoming, metaVars, traceVars>>

\* GrpcServer::start: start_with_middleware(())
Start ==
    /\ server.pc = "new"
    /\ server' = [server EXCEPT !.pc = "start_with_middleware",
                                !.middleware = Unit]
    /\ UNCHANGED <<incoming, metaVars, traceVars>>

\* GrpcServer::start_with_middleware(middleware) is called
StartWith(middleware) ==
    /\ server.pc = "new"
    /\ server' = [server EXCEPT !.pc = "start_with_middleware",
                                !.middleware = middleware]
    /\ UNCHANGED <<incoming, metaVars, traceVars>>

\* global::set_text_map_propagator(TraceContextPropagator::new())
SetTextMapPropagator ==
    /\ server.pc = "start_with_middleware"
    /\ propagator' = "TraceContextPropagator"
    /\ server' = [server EXCEPT !.pc = "tracer_provider"]
    /\ UNCHANGED <<incoming, metaVars, tracer, calls, spans, current>>

\* the exporter and the tracer provider are built, and the tracer "gear-rs"
BuildTracer ==
    /\ server.pc = "tracer_provider"
    /\ tracer' = Some("gear-rs")
    /\ server' = [server EXCEPT !.pc = "app"]
    /\ UNCHANGED <<incoming, metaVars, propagator, calls, spans, current>>

\* .expect("Trace exporter should initialize."): the exporter fails and the
\* bootstrap panics
ExporterFails ==
    /\ server.pc = "tracer_provider"
    /\ server' = [server EXCEPT !.pc = "panicked"]
    /\ UNCHANGED <<incoming, metaVars, traceVars>>

\* the router is wrapped in the built-in stack, with TokioMetrics when
\* GEAR_ENABLE_TOKIO_METRICS is "1", and then in the user's middleware
BuildApp ==
    /\ server.pc = "app"
    /\ \E tokio_metrics \in BOOLEAN :
          server' = [server EXCEPT !.pc = "bind",
                                   !.app = App(tokio_metrics, server.middleware)]
    /\ UNCHANGED <<incoming, metaVars, traceVars>>

\* Server::new(TcpListener::bind(..)).run(app): the server accepts calls
Run ==
    /\ server.pc = "bind"
    /\ server' = [server EXCEPT !.pc = "running"]
    /\ UNCHANGED <<incoming, metaVars, traceVars>>

\* the listener fails to bind: start_with_middleware returns the io::Error
BindFails ==
    /\ server.pc = "bind"
    /\ server' = [server EXCEPT !.pc = "io_error"]
    /\ UNCHANGED <<incoming, metaVars, traceVars>>

\* the running server accepts a call for a service
Accept(r) ==
    /\ server.pc = "running"
    /\ incoming[r].pc = "none"
    /\ \E s \in Services :
          incoming' = [incoming EXCEPT ![r] =
                         [NoIncoming EXCEPT !.pc = "stages", !.service = s,
                                            !.pos = 1,
                                            !.propagator = propagator]]
    /\ UNCHANGED <<server, metaVars, traceVars>>

\* the stages of the app are behind the call: the router is next
Forward(rq) ==
    IF rq.pos > Len(server.app) THEN [rq EXCEPT !.pc = "router"] ELSE rq

\* the next stage of the app runs for the call and forwards it
RunStage(r) ==
    /\ incoming[r].pc = "stages"
    /\ incoming[r].pos <= Len(server.app)
    /\ LET stage == server.app[incoming[r].pos]
       IN  incoming' = [incoming EXCEPT ![r] =
                          Forward([@ EXCEPT
                              !.log = Append(@, stage),
                              !.data = @ \cup StageData(stage, incoming[r].service),
                              !.pos = @ + 1])]
    /\ UNCHANGED <<server, metaVars, traceVars>>

\* a stage of the user's middleware answers the call itself
StageAnswers(r) ==
    /\ incoming[r].pc = "stages"
    /\ incoming[r].pos <= Len(server.app)
    /\ server.app[incoming[r].pos] \in Answering
    /\ incoming' = [incoming EXCEPT ![r] =
                      [@ EXCEPT !.log = Append(@, server.app[incoming[r].pos]),
                                !.pc = "answered"]]
    /\ UNCHANGED <<server, metaVars, traceVars>>

\* RouteGrpc: the call goes to the handler of its service, if registered
Route(r) ==
    /\ incoming[r].pc = "router"
    /\ incoming' = [incoming EXCEPT ![r] =
                      [@ EXCEPT !.pc = IF incoming[r].service \in server.services
                                       THEN "handler" ELSE "not_found"]]
    /\ UNCHANGED <<server, metaVars, traceVars>>

\* the handler of the service runs and answers
Handle(r) ==
    /\ incoming[r].pc = "handler"
    /\ incoming' = [incoming EXCEPT ![r] = [@ EXCEPT !.pc = "handled"]]
    /\ UNCHANGED <<server, metaVars, traceVars>>

-----------------------------------------------------------------------------
(* The accessor calls *)

Return(method, value) ==
    /\ ret' = [method |-> method, value |-> value]
    /\ UNCHANGED metadata
    /\ UNCHANGED traceVars
    /\ UNCHANGED serverVars

CallMemberId == Return("member_id", member_id(metadata))
CallAdminId == Return("admin_id", admin_id(metadata))
CallOrganizationId == Return("organization_id", organization_id(metadata))
CallTargetOrganizationId ==
    Return("target_organization_id", target_organization_id(metadata))
CallTargetAaid == Return("target_aaid", target_aaid(metadata))
CallBaseLevel == Return("base_level", base_level(metadata))
CallMarketLevels == Return("market_levels", market_levels(metadata))
CallFeatures == Return("features", features(metadata))
CallOpMemberId == Return("op_member_id", op_member_id(metadata))
CallBrokerType == Return("broker_type", broker_type(metadata))

Init ==
    /\ metadata \in Requests
    /\ ret = [method |-> "none", value |-> None]
    /\ TraceInit
    /\ ServerInit

Next ==
    \/ CallMemberId
    \/ CallAdminId
    \/ CallOrganizationId
    \/ CallTargetOrganizationId
    \/ CallTargetAaid
    \/ CallBaseLevel
    \/ CallMarketLevels
    \/ CallFeatures
    \/ CallOpMemberId
    \/ CallBrokerType

Spec == Init /\ [][Next]_vars

\* the calls through the client middleware, no accessor called
TracingInit ==
    /\ metadata = NoHeaders
    /\ ret = [method |-> "none", value |-> None]
    /\ TraceInit
    /\ ServerInit

TracingNext ==
    \/ StartWithMiddleware
    \/ \E c \in Calls : NewCall(c)
    \/ \E c \in Calls, w \in Workers : PollFirst(c, w)
    \/ \E c \in Calls : StartSpan(c)
    \/ \E c \in Calls : SetAttribute(c)
    \/ \E c \in Calls : CurrentWithSpan(c)
    \/ \E c \in Calls : InjectContext(c)
    \/ \E c \in Calls : CallInner(c)
    \/ \E c \in Calls, w \in Workers : PollAgain(c, w)
    \/ \E c \in Calls : Attach(c)
    \/ \E c \in Calls : InnerPoll(c)
    \/ \E c \in Calls : Cancel(c)

TracingSpec == TracingInit /\ [][TracingNext]_vars

\* the bootstrap of a server and its incoming calls
ServerNext ==
    \/ \E s \in Services : AddService(s)
    \/ Start
    \/ \E middleware \in UserMiddlewares : StartWith(middleware)
    \/ SetTextMapPropagator
    \/ BuildTracer
    \/ ExporterFails
    \/ BuildApp
    \/ Run
    \/ BindFails
    \/ \E r \in Incoming : Accept(r)
    \/ \E r \in Incoming : RunStage(r)
    \/ \E r \in Incoming : StageAnswers(r)
    \/ \E r \in Incoming : Route(r)
    \/ \E r \in Incoming : Handle(r)

ServerSpec == TracingInit /\ [][ServerNext]_vars

-----------------------------------------------------------------------------
(* What a header value denotes, stated without the parsing loop *)

IsDigit(c) == \E d \in 0..9 : DigitChars[d + 1] = c
DigitValue(c) == CHOOSE d \in 0..9 : DigitChars[d + 1] = c

\* the magnitude of a non-empty string of digits: its digits from the first
\* that is not zero (the last digit when all are zero)
MagnitudeOf(ds) ==
    LET first ==
            IF \E i \in 1..Len(ds) : ds[i] # "0"
            THEN CHOOSE i \in 1..Len(ds) :
                    ds[i] # "0" /\ \A j \in 1..(i - 1) : ds[j] = "0"
            ELSE Len(ds)
    IN  [i \in 1..(Len(ds) - first + 1) |-> DigitValue(ds[first + i - 1])]

\* the integer of type T that s denotes: Some of it when s, as a whole, is a
\* numeral within T's range, None otherwise.  A numeral is a non-empty
\* string of decimal digits after an optional sign, "+" for every type and
\* "-" for a signed type alone: a "-" in front makes the text a negative
\* number, which no unsigned field takes ("-0" included).
Denoted(s, T) ==
    LET signed == s # <<>> /\ s[1] \in {"+", "-"}
        minus == s # <<>> /\ s[1] = "-"
        ds == IF signed THEN Tail(s) ELSE s
        numeral == ds # <<>> /\ \A i \in 1..Len(ds) : IsDigit(ds[i])
        mag == MagnitudeOf(ds)
    IN  IF ~numeral \/ (minus /\ ~T.signed) THEN None
        ELSE IF ~MagLeq(mag, IF minus THEN T.minMag ELSE T.max) THEN None
        ELSE Some([neg |-> minus /\ mag # <<0>>, mag |-> mag])

\* the value of header h read as a T: None when absent or no numeral of T
HeaderAs(h, T) ==
    IF metadata[h] = None THEN None ELSE Denoted(metadata[h][1], T)

Num(n) == [neg |-> FALSE, mag |-> <<n>>]

-----------------------------------------------------------------------------
(* Claims about the accessors, checked under Spec *)

\* C1: op_member_id returns the value of op-member-id when that header is
\* present and is an unsigned 64-bit numeral, and otherwise exactly what
\* member_id returns (the value of member-id, or no value); so
\* op-member-id=7 with member-id=9 gives 7, member-id=9 alone gives 9 and
\* no header gives no value.
C1_OpMemberIdFallback ==
    ret.method = "op_member_id" =>
        /\ ret.value =
                IF HeaderAs("op-member-id", U64) # None
                THEN HeaderAs("op-member-id", U64)
                ELSE HeaderAs("member-id", U64)
        /\ ret.value = member_id(metadata) \/ HeaderAs("op-member-id", U64) # None
        /\ (metadata["op-member-id"] = Some(<<"7">>)
                /\ metadata["member-id"] = Some(<<"9">>)) => ret.value = Some(Num(7))
        /\ (metadata["op-member-id"] = None
                /\ metadata["member-id"] = Some(<<"9">>)) => ret.value = Some(Num(9))
        /\ (metadata["op-member-id"] = None
                /\ metadata["member-id"] = None) => ret.value = None

\* C1's case: op-member-id is present and unparsable, member-id is 9, and
\* op_member_id has returned 9
C1_Witness ==
    /\ ret.method = "op_member_id"
    /\ metadata["op-member-id"] = Some(<<"a">>)
    /\ metadata["member-id"] = Some(<<"9">>)
    /\ ret.value = Some(Num(9))

\* whether s is in the documented format: groups between ";", each a
\* non-empty name, one ":" and non-empty levels between ","
DocumentedFormat(s) ==
    LET groups == split(s, ";")
    IN  /\ \A i \in 1..Len(groups) :
              LET so == split_once(groups[i], ":")
              IN  /\ so # None
                  /\ so[1][1] # <<>>
                  /\ Find(so[1][2], ":") = 0
                  /\ \A j \in 1..Len(split(so[1][2], ",")) :
                        split(so[1][2], ",")[j] # <<>>
        /\ \A i, j \in 1..Len(groups) :
              split_once(groups[i], ":")[1][1] = split_once(groups[j], ":")[1][1]
                  => i = j

\* the group names of a header in the documented format
DocumentedNames(s) ==
    {split_once(split(s, ";")[i], ":")[1][1] : i \in 1..Len(split(s, ";"))}

\* the levels of group name, in order
DocumentedLevels(s, name) ==
    LET groups == split(s, ";")
        i == CHOOSE k \in 1..Len(groups) : split_once(groups[k], ":")[1][1] = name
    IN  split(split_once(groups[i], ":")[1][2], ",")

\* C2: for a market-levels header in the documented format
\* market1:level1,level2;market2:level3, market_levels returns a map whose
\* keys are exactly the header's group names and whose value for each group
\* is the ordered list of that group's levels.
C2_MarketLevelsParsed ==
    (/\ ret.method = "market_levels"
     /\ metadata["market-levels"] # None
     /\ DocumentedFormat(metadata["market-levels"][1]))
        => LET s == metadata["market-levels"][1]
           IN  /\ DOMAIN ret.value = DocumentedNames(s)
               /\ \A name \in DocumentedNames(s) :
                     ret.value[name] = DocumentedLevels(s, name)

\* C5: broker_type returns no value exactly when broker-type is absent or
\* no signed 64-bit numeral; for a numeral n it returns Unknown for 0,
\* Trader for 1, Broker for 2 and Unknown for every other n.
C5_BrokerTypeTotal ==
    ret.method = "broker_type" =>
        LET n == HeaderAs("broker-type", I64)
        IN  /\ (ret.value = None) <=> (n = None)
            /\ n # None =>
                  ret.value =
                    Some(IF n[1] = Num(0) THEN "Unknown"
                         ELSE IF n[1] = Num(1) THEN "Trader"
                         ELSE IF n[1] = Num(2) THEN "Broker"
                         ELSE "Unknown")

\* C5's case: broker-type is 99 and broker_type has returned Unknown
C5_Witness ==
    /\ ret.method = "broker_type"
    /\ metadata["broker-type"] = Some(<<"9", "9">>)
    /\ ret.value = Some("Unknown")

\* the numeric scalar accessors: method, header, type
NumericAccessors ==
    {<<"member_id", "member-id", U64>>,
     <<"admin_id", "admin-id", U64>>,
     <<"organization_id", "org-id", U64>>,
     <<"target_organization_id", "x-target-org-id", U64>>,
     <<"target_aaid", "target-aaid", U64>>,
     <<"base_level", "base-level", I32>>}

\* C6: each numeric scalar accessor returns no value when its header is
\* absent or is not, as a whole, a numeral within the range of its type
\* (unsigned 64-bit; signed 32-bit for base_level), and the number
\* otherwise; every call returns.
C6_NumericScalars ==
    \A a \in NumericAccessors :
        ret.method = a[1] => ret.value = HeaderAs(a[2], a[3])

\* C6's case: member-id is a digit with trailing garbage and member_id has
\* returned no value
C6_Witness ==
    /\ ret.method = "member_id"
    /\ metadata["member-id"] = Some(<<"7", "a">>)
    /\ ret.value = None

\* the number of c's in s
Count(s, c) == Cardinality({i \in 1..Len(s) : s[i] = c})

\* C7: for a present x-features value, features returns the substrings
\* between the commas in their order, nothing dropped and nothing trimmed:
\* one token more than there are commas, no token holding a comma, and the
\* tokens joined with "," giving back the value; absent, the empty list.
C7_FeaturesSplit ==
    ret.method = "features" =>
        IF metadata["x-features"] = None THEN ret.value = <<>>
        ELSE LET v == metadata["x-features"][1]
             IN  /\ Len(ret.value) = Count(v, ",") + 1
                 /\ \A i \in 1..Len(ret.value) : Count(ret.value[i], ",") = 0
                 /\ Join(ret.value, ",") = v

\* C7's case: x-features is "dark_mode,beta_ui" and features has returned
\* the two flags in order
C7_Witness ==
    /\ ret.method = "features"
    /\ metadata["x-features"] =
          Some(<<"d", "a", "r", "k", "_", "m", "o", "d", "e", ",",
                 "b", "e", "t", "a", "_", "u", "i">>)
    /\ ret.value = <<<<"d", "a", "r", "k", "_", "m", "o", "d", "e">>,
                     <<"b", "e", "t", "a", "_", "u", "i">>>>

\* C8 as stated: an absent header and a header present with the empty
\* string both give the empty value, features the empty list and
\* market_levels the empty map.
C8_EmptyCollapses ==
    /\ (ret.method = "features" /\ metadata["x-features"] \in {None, Some(<<>>)})
            => ret.value = <<>>
    /\ (ret.method = "market_levels"
            /\ metadata["market-levels"] \in {None, Some(<<>>)})
            => DOMAIN ret.value = {}

\* C8 amended: an absent header gives the empty value for both accessors;
\* a header present with the empty string gives the empty map for
\* market_levels and, for features, the list of one token, the empty string.
C8_EmptyAmended ==
    /\ (ret.method = "features" /\ metadata["x-features"] = None)
            => ret.value = <<>>
    /\ (ret.method = "features" /\ metadata["x-features"] = Some(<<>>))
            => ret.value = <<<<>>>>
    /\ (ret.method = "market_levels"
            /\ metadata["market-levels"] \in {None, Some(<<>>)})
            => DOMAIN ret.value = {}

\* C8's case: x-features is present and empty, and features has returned
C8_Witness ==
    /\ ret.method = "features"
    /\ metadata["x-features"] = Some(<<>>)
    /\ Len(ret.value) = 1

-----------------------------------------------------------------------------
(* Claims about the client tracing middleware, checked under TracingSpec *)

\* the calls handed to the endpoint with and without a tracer in their data
WithTracer == {c \in Calls : calls[c].pc # "idle" /\ calls[c].req.data # None}
WithoutTracer == {c \in Calls : calls[c].pc # "idle" /\ calls[c].req.data = None}

\* the inner endpoint of c has been invoked
Invoked(c) == calls[c].innerReq # None

\* C3: without a tracer in the call's data, call starts no span, invokes
\* the inner endpoint once, with exactly the headers it received, and
\* returns the inner endpoint's result.
C3_PassThrough ==
    \A c \in WithoutTracer :
        /\ spans[c] = <<>>
        /\ calls[c].span = None /\ calls[c].cx = None /\ calls[c].guard = None
        /\ calls[c].req.headers = calls[c].entry
        /\ calls[c].innerCalls <= 1
        /\ Invoked(c) <=> calls[c].innerCalls = 1
        /\ Invoked(c) => calls[c].innerReq[1] = calls[c].entry
        /\ calls[c].pc \in {"await", "inner", "suspended", "done"} => Invoked(c)
        /\ calls[c].pc = "done" =>
              calls[c].result # None /\ calls[c].result = calls[c].innerOut

\* C3's case: the process has a tracer, the data of the call has none, the
\* request carries trace headers of an earlier hop, and the call has
\* returned the failure of the inner endpoint
C3_Witness ==
    \E c \in WithoutTracer :
        /\ tracer # None
        /\ calls[c].pc = "done"
        /\ calls[c].entry["traceparent"] = Some(OldTraceParent)
        /\ calls[c].result = Some("err")

\* the call has ended: it returned (Ok or Err) or its future was dropped
Ended(c) == calls[c].pc \in {"done", "cancelled"}

\* the body of call has run past the start of the span
SpanStarted(c) ==
    \/ calls[c].pc \in {"set_attribute", "current_with_span", "inject_context",
                        "call_inner", "await", "inner", "suspended", "done"}
    \/ calls[c].pc = "cancelled" /\ Invoked(c)

\* C4: with a tracer in the call's data, a call that runs opens exactly one
\* span, of kind Client, and when the call has ended (normal return,
\* failure of the inner endpoint, or its future dropped) that span has been
\* closed exactly once; no span is left open by an ended call and none is
\* closed twice.
C4_SpanClosedOnce ==
    \A c \in WithTracer :
        /\ Len(spans[c]) <= 1
        /\ SpanStarted(c) <=> Len(spans[c]) = 1
        /\ \A i \in 1..Len(spans[c]) :
              /\ spans[c][i].kind = "Client"
              /\ spans[c][i].name = "grpc request"
              /\ spans[c][i].ends <= 1
              /\ Ended(c) => spans[c][i].ends = 1
        /\ calls[c].pc = "done" => Len(spans[c]) = 1

\* C4's case: a call with a tracer was suspended in its inner endpoint, its
\* future was dropped, and its span is closed
C4_Witness ==
    \E c \in WithTracer :
        /\ calls[c].pc = "cancelled"
        /\ calls[c].pendings = 1
        /\ Len(spans[c]) = 1
        /\ spans[c][1].ends = 1

\* C9 as stated: with a tracer, every header the request carried on entry
\* is still there with the same value when the inner endpoint is invoked,
\* the propagator's own headers included.
C9_AdditiveOnly ==
    \A c \in WithTracer :
        Invoked(c) =>
            \A h \in TraceHeaderNames :
                calls[c].entry[h] # None =>
                    calls[c].innerReq[1][h] = calls[c].entry[h]

\* C9 amended: with a tracer, under the propagator the server bootstrap
\* sets, every header the request carried on entry is still present when
\* the inner endpoint is invoked; every header but the propagator's own
\* fields (traceparent, tracestate) has the value it had, and those two
\* carry the context of this call's span, replacing any value they had.
C9_InjectionFrame ==
    \A c \in WithTracer :
        Invoked(c) =>
            /\ \A h \in TraceHeaderNames :
                  calls[c].entry[h] # None => calls[c].innerReq[1][h] # None
            /\ \A h \in TraceHeaderNames \ PropagatorFields :
                  calls[c].innerReq[1][h] = calls[c].entry[h]
            /\ calls[c].innerReq[1]["traceparent"] = Some(TraceParent(<<c, 1>>))
            /\ calls[c].innerReq[1]["tracestate"] = Some(EmptyTraceState)

\* C9's case: a request that came with a traceparent reaches the inner
\* endpoint with the traceparent of this call's span
C9_Witness ==
    \E c \in WithTracer :
        /\ Invoked(c)
        /\ calls[c].entry["traceparent"] = Some(OldTraceParent)
        /\ calls[c].innerReq[1]["traceparent"] = Some(TraceParent(<<c, 1>>))
        /\ calls[c].innerReq[1]["x-micro-service"] = Some(ServiceName)

-----------------------------------------------------------------------------
(* The server bootstrap claims *)

\* the call is at, or behind, the handler of its registered service
AtHandler(r) == incoming[r].pc \in {"handler", "handled"}

\* the call has been accepted
Accepted(r) == incoming[r].pc # "none"

\* log is the beginning of the chain
IsPrefix(log, chain) ==
    /\ Len(log) <= Len(chain)
    /\ \A i \in 1..Len(log) : log[i] = chain[i]

\* the place of a stage in a chain, 0 when it is not there
Place(stage, chain) ==
    IF \E i \in 1..Len(chain) : chain[i] = stage
    THEN CHOOSE i \in 1..Len(chain) : chain[i] = stage
    ELSE 0

\* C11: a call that reaches the handler of a registered service has the
\* tracer of the server in its data before the handler runs; the propagator
\* was the trace-context propagator when the call was accepted, and is
\* still; the stages that have run for a call are the beginning of the one
\* chain the server built, in which the built-in stages stand in the order
\* RequestDurationMiddleware, SetCurrentService, OpenTelemetryMetrics,
\* OpenTelemetryTracing, AddData, with TokioMetrics, when there, between the
\* first two.
C11_TracerBeforeHandler ==
    \A r \in Incoming :
        /\ AtHandler(r) =>
              /\ tracer # None
              /\ <<"Tracer", tracer[1]>> \in incoming[r].data
              /\ Place("AddData", incoming[r].log) = Len(incoming[r].log)
        /\ Accepted(r) =>
              /\ incoming[r].propagator = "TraceContextPropagator"
              /\ propagator = "TraceContextPropagator"
              /\ IsPrefix(incoming[r].log, server.app)
              /\ \A q \in Incoming :
                    \/ IsPrefix(incoming[r].log, incoming[q].log)
                    \/ IsPrefix(incoming[q].log, incoming[r].log)
              /\ LET at(stage) == Place(stage, server.app)
                 IN  /\ 0 < at("RequestDurationMiddleware")
                     /\ at("RequestDurationMiddleware") < at("SetCurrentService")
                     /\ at("SetCurrentService") < at("OpenTelemetryMetrics")
                     /\ at("OpenTelemetryMetrics") < at("OpenTelemetryTracing")
                     /\ at("OpenTelemetryTracing") < at("AddData")
                     /\ at("AddData") = Len(server.app)
                     /\ at("TokioMetrics") # 0 =>
                           /\ at("RequestDurationMiddleware") < at("TokioMetrics")
                           /\ at("TokioMetrics") < at("SetCurrentService")

\* two calls of a server started with a user middleware and TokioMetrics:
\* one has been handled with the tracer in its data, the other is at the
\* handler of the other service
C11_Witness ==
    /\ Len(server.app) = 7
    /\ server.services = Services
    /\ \E r, q \in Incoming :
          /\ incoming[r].pc = "handled"
          /\ incoming[q].pc = "handler"
          /\ incoming[r].service # incoming[q].service
          /\ incoming[r].data =
                {<<"Tracer", "gear-rs">>, <<"CurrentService", incoming[r].service>>}
          /\ incoming[r].log = server.app

-----------------------------------------------------------------------------
(* Concurrent calls through one ClientTracingEndpoint *)

\* the spans call has started, and those the other calls have started
SpansOf(c) == {spans[c][i].id : i \in 1..Len(spans[c])}
SpansOfOthers(c) == UNION {SpansOf(b) : b \in Calls \ {c}}

\* C12: concurrent calls through the same endpoint do not interfere.  While
\* the inner endpoint of a call runs, the worker's current Context holds
\* this call's span if the call has a tracer and no span at all if it has
\* none, and never the span of another call; the same is true of every
\* Context the inner endpoint has ever run under.  The traceparent given
\* to the inner endpoint is never that of another call's span, and with a
\* tracer it is that of the call's own span.  No span of a call has the span
\* of another call as its parent, and a worker that is polling no call has
\* the Context it had before any call, whether the calls it polled are
\* suspended, completed or cancelled.
C12_NoInterference ==
    /\ \A a \in Calls :
          LET cl == calls[a]
              own == SpansOf(a)
              others == SpansOfOthers(a)
              traced == cl.req.data # None
          IN  /\ cl.pc = "inner" =>
                    /\ current[cl.worker].span \notin others
                    /\ current[cl.worker] =
                          IF traced THEN Context(spans[a][1].id) ELSE RootContext
              /\ \A cx \in cl.innerSaw :
                    /\ cx.span \notin others
                    /\ ~traced => cx = RootContext
              /\ Invoked(a) =>
                    /\ \A id \in others :
                          cl.innerReq[1]["traceparent"] # Some(TraceParent(id))
                    /\ IF traced
                       THEN \E id \in own :
                               cl.innerReq[1]["traceparent"] = Some(TraceParent(id))
                       ELSE cl.innerReq[1] = cl.entry
              /\ \A i \in 1..Len(spans[a]) : spans[a][i].parent \notin others
    /\ \A w \in Workers : WorkerFree(w) => current[w] = RootContext

\* C12's case: a call with a tracer is suspended, its inner endpoint having
\* run under its span, and on the worker that polled it last the inner
\* endpoint of a call without a tracer is running
C12_Witness ==
    \E a \in WithTracer, b \in WithoutTracer :
        /\ calls[a].pc = "suspended"
        /\ calls[a].innerSaw = {Context(<<a, 1>>)}
        /\ calls[b].pc = "inner"
        /\ calls[b].worker = calls[a].worker
        /\ current[calls[b].worker] = RootContext
=============================================================================
